---- MODULE Spec2Model ----
(***************************************************************************)
(* Model of src/conversions.h: the binary sample encoders of LabRecorder.  *)
(*                                                                         *)
(* The output stream (the sink) is a sequence of segments [b, n], "n       *)
(* copies of byte b": dst.put appends a segment of one byte, dst.write     *)
(* appends the segments of the block it is given.  Norm gives the          *)
(* canonical run-length form of the byte sequence a segment list stands    *)
(* for, so two sinks hold the same bytes iff their Norm is equal.  This    *)
(* keeps strings of 2^16 and 2^32 bytes representable.                      *)
(*                                                                         *)
(* A uint64_t (and every narrower unsigned integer, zero-extended) is a    *)
(* tuple of four 16-bit limbs, least significant first, because the        *)
(* values the code branches on (2^32, 2^64 - 1) exceed the integers of     *)
(* the model checker.                                                      *)
(***************************************************************************)
EXTENDS Integers, Sequences, FiniteSets, TLC

\* Longest generic batch handed to an encoder.
MaxBatch == 2
\* Encoders are called while the sink holds at most this many segments.
MaxSink == 4

VARIABLES
    dst,       \* the sink: everything written to the std::ostream so far
    pre,       \* number of segments the sink held when the last call began
    op,        \* the last encoder called ("none" before the first call)
    strs,      \* the std::string elements sample[0 .. len) of the last call
    nums,      \* the uint16_t elements sample[0 .. len) of the last call
    sample,    \* the pointer argument, as an offset into the caller's array
    len,       \* the len argument
    val,       \* the uint64_t argument of write_varlen_int
    flt,       \* the float argument of write_little_endian
    ret,       \* the returned pointer, as an offset (NoRet for void)
    exotic,    \* whether the build defines EXOTIC_ARCH_SUPPORT
    longBits   \* width of long in the build (LP64: 64, LLP64 and ILP32: 32)

vars == <<dst, pre, op, strs, nums, sample, len, val, flt, ret, exotic, longBits>>

----------------------------------------------------------------------------
(* uint64_t arithmetic on 16-bit limbs *)

Limb == 256 * 256

\* The uint64_t of a small natural number (n < 2^31).
U64(n) == <<n % Limb, (n \div Limb) % Limb, 0, 0>>

Zero64 == U64(0)
One64 == U64(1)

\* a + b modulo 2^64.
AddU64(a, b) ==
    LET s1 == a[1] + b[1]
        s2 == a[2] + b[2] + (s1 \div Limb)
        s3 == a[3] + b[3] + (s2 \div Limb)
        s4 == a[4] + b[4] + (s3 \div Limb)
    IN  <<s1 % Limb, s2 % Limb, s3 % Limb, s4 % Limb>>

\* a < b, a <= b, a >= b on uint64_t.
LtU64(a, b) == \E i \in 1..4 : a[i] < b[i] /\ \A j \in (i+1)..4 : a[j] = b[j]
LeU64(a, b) == a = b \/ LtU64(a, b)
GeU64(a, b) == ~LtU64(a, b)

\* static_cast to the unsigned type of w bytes (w in {1,2,4,8}), zero-extended.
CastU(v, w) ==
    [i \in 1..4 |-> IF 2 * i <= w THEN v[i]
                    ELSE IF 2 * i - 1 = w THEN v[i] % 256
                    ELSE 0]

\* Byte i (1 = least significant) of a value.
ByteOf(v, i) ==
    LET limb == v[((i - 1) \div 2) + 1]
    IN  IF i % 2 = 1 THEN limb % 256 ELSE limb \div 256

----------------------------------------------------------------------------
(* the sink *)

Seg(b, n) == [b |-> b, n |-> n]

\* std::ostream::put
Put(d, b) == Append(d, Seg(b, One64))

\* std::ostream::write(data, size) of a block of bytes
Write(d, block) == d \o block

\* Number of bytes a segment list stands for.
RECURSIVE ByteLen(_)
ByteLen(s) ==
    IF s = <<>> THEN Zero64 ELSE AddU64(s[1].n, ByteLen(Tail(s)))

----------------------------------------------------------------------------
(* scalar encoder *)

\* write_little_endian for an integral T of w bytes.  Without
\* EXOTIC_ARCH_SUPPORT the host is little-endian (lines 1-3), sizeof(T) = 1
\* goes through put and wider types through write of the object's bytes;
\* with it the value is converted to little-endian first and handed to the
\* stream buffer (line 38 writes `dst->sputn` on a std::ostream&; it is read
\* as the write it stands for).  Either way the w bytes are appended least
\* significant first.
write_little_endian(d, v, w) ==
    IF w = 1 THEN Put(d, ByteOf(v, 1))
    ELSE Write(d, [i \in 1..w |-> Seg(ByteOf(v, i), One64)])

----------------------------------------------------------------------------
(* variable-length integer encoder *)

U32Max == <<Limb - 1, Limb - 1, 0, 0>>

\* write_varlen_int with the first comparison written `val <= 256`.
write_varlen_int_le256(d, v) ==
    IF LeU64(v, U64(256))
    THEN Put(Put(d, 1), ByteOf(CastU(v, 1), 1))
    ELSE IF LeU64(v, U32Max)
    THEN write_little_endian(Put(d, 4), CastU(v, 4), 4)
    ELSE write_little_endian(Put(d, 8), CastU(v, 8), 8)

write_varlen_int(d, v) ==
    IF LtU64(v, U64(256))
    THEN Put(Put(d, 1), ByteOf(CastU(v, 1), 1))
    ELSE IF LeU64(v, U32Max)
    THEN write_little_endian(Put(d, 4), CastU(v, 4), 4)
    ELSE write_little_endian(Put(d, 8), CastU(v, 8), 8)


----------------------------------------------------------------------------
(* floating point, EXOTIC_ARCH_SUPPORT: classify, then emit bits *)

\* A float is its IEEE-754 binary32 fields; traits::bits (uint32_t) is kept
\* in the same three fields: sign (bit 31), exp (bits 30-23), man (bits 22-0).
ManMax == 128 * 256 * 256 - 1
Float(s, e, m) == [sign |-> s, exp |-> e, man |-> m]

traits_sign == Float(1, 0, 0)
traits_exponent == Float(0, 255, 0)
traits_mantissa == Float(0, 0, ManMax)
NoBits == Float(0, 0, 0)

\* a | b on naturals.
RECURSIVE OrNat(_, _)
OrNat(a, b) ==
    IF a = 0 THEN b
    ELSE IF b = 0 THEN a
    ELSE (IF a % 2 = 1 \/ b % 2 = 1 THEN 1 ELSE 0) + 2 * OrNat(a \div 2, b \div 2)

BitsOr(x, y) ==
    Float(OrNat(x.sign, y.sign), OrNat(x.exp, y.exp), OrNat(x.man, y.man))

\* fp::fpclassify
fpclassify(t) ==
    IF t.exp = 255 THEN (IF t.man # 0 THEN "FP_NAN" ELSE "FP_INFINITE")
    ELSE IF t.exp = 0 THEN (IF t.man # 0 THEN "FP_SUBNORMAL" ELSE "FP_ZERO")
    ELSE "FP_NORMAL"

\* traits::get_bits: the object representation of t.
get_bits(t) == t

\* t < 0 on an infinite t.
IsNegative(t) == t.sign = 1

\* The switch of lines 53-60.  FP_SUBNORMAL leaves the switch without
\* assigning bits, so what is written is the indeterminate value `uninit`.
fp_bits(t, uninit) ==
    LET c == fpclassify(t)
    IN  IF c = "FP_NAN" THEN BitsOr(traits_exponent, traits_mantissa)
        ELSE IF c = "FP_INFINITE"
        THEN BitsOr(traits_exponent, IF IsNegative(t) THEN traits_sign ELSE NoBits)
        ELSE IF c = "FP_SUBNORMAL" THEN uninit
        ELSE IF c \in {"FP_ZERO", "FP_NORMAL"} THEN get_bits(t)
        ELSE NoBits

\* The uint32_t holding a bit pattern.
BitsU64(x) ==
    <<x.man % Limb,
      (x.man \div Limb) + (x.exp % 2) * 128 + (x.exp \div 2) * 256 + x.sign * 128 * 256,
      0, 0>>

\* write_little_endian for float.  Without EXOTIC_ARCH_SUPPORT it is the
\* sizeof(T) >= 2 overload: the four bytes of the object.
write_little_endian_fp(d, t, uninit, ex) ==
    IF ex THEN write_little_endian(d, BitsU64(fp_bits(t, uninit)), 4)
    ELSE write_little_endian(d, BitsU64(get_bits(t)), 4)

----------------------------------------------------------------------------
(* sample batch encoder, numeric version (T = uint16_t) *)

RECURSIVE write_values_loop(_, _, _, _)
write_values_loop(d, arr, p, end) ==
    IF p < end
    THEN write_values_loop(write_little_endian(d, arr[p + 1], 2), arr, p + 1, end)
    ELSE [dst |-> d, ret |-> p]

\* The bytes of the objects arr[1..n] in memory of a little-endian host.
RECURSIVE ObjectBytes(_, _)
ObjectBytes(arr, n) ==
    IF n = 0 THEN <<>>
    ELSE ObjectBytes(arr, n - 1)
         \o <<Seg(ByteOf(arr[n], 1), One64), Seg(ByteOf(arr[n], 2), One64)>>

\* arr holds sample[0 .. len); smp is the offset of sample in the caller's
\* array.  EXOTIC_ARCH_SUPPORT: the loop of lines 65-70; otherwise one write
\* of len * sizeof(T) bytes, lines 90-95.
write_sample_values_num(d, arr, smp, n, ex) ==
    IF ex
    THEN LET r == write_values_loop(d, arr, 0, n)
         IN  [dst |-> r.dst, ret |-> smp + r.ret]
    ELSE [dst |-> Write(d, ObjectBytes(arr, n)), ret |-> smp + n]

\* Generic write_chunk7_samples(dst, sample, len), lines 142-145.
write_chunk7_samples_num(d, arr, smp, n, ex) ==
    write_sample_values_num(d, arr, smp, n, ex)

----------------------------------------------------------------------------
(* sample batch encoder, string version *)

\* std::string::size / length
size(s) == ByteLen(s)

\* The plain loop with the string written before its length.
RECURSIVE write_strings_loop_swapped(_, _, _, _)
write_strings_loop_swapped(d, arr, p, end) ==
    IF p < end
    THEN write_strings_loop_swapped(
             write_varlen_int(Write(d, arr[p + 1]), size(arr[p + 1])),
             arr, p + 1, end)
    ELSE [dst |-> d, ret |-> p]

\* Plain mode, lines 128-140; p runs over arr as sample runs to end.
RECURSIVE write_strings_loop(_, _, _, _)
write_strings_loop(d, arr, p, end) ==
    IF p < end
    THEN write_strings_loop(
             Write(write_varlen_int(d, size(arr[p + 1])), arr[p + 1]),
             arr, p + 1, end)
    ELSE [dst |-> d, ret |-> p]

\* The plain encoder with the loop stopping one string early.
write_sample_values_str_short(d, arr, smp, n) ==
    LET r == write_strings_loop(d, arr, 0, IF n > 0 THEN n - 1 ELSE 0)
    IN  [dst |-> r.dst, ret |-> smp + n]

write_sample_values_str(d, arr, smp, n) ==
    LET r == write_strings_loop(d, arr, 0, n)
    IN  [dst |-> r.dst, ret |-> smp + r.ret]

\* write_chunk7_samples(dst, const std::vector<T>&), lines 147-150, T = std::string
write_chunk7_samples_vec(d, vec) ==
    write_sample_values_str(d, vec, 0, Len(vec)).dst

----------------------------------------------------------------------------
(* sample batch encoder, string version, chunk7 *)

\* The values `1L << 32` can take, converted to uint64_t for the comparison
\* with maxlen.  With a 64-bit long it is 2^32.  With a 32-bit long the shift
\* count equals the width of the type, which is undefined: builds produce 0
\* (the bit shifted out) or 1 (the count taken modulo 32).
Shl1L32(bits) ==
    IF bits = 64 THEN {<<0, 0, 1, 0>>} ELSE {Zero64, One64}

\* std::transform over sample .. sample + len, line 158
StrLens(arr, n) == [i \in 1..n |-> size(arr[i])]

\* std::minmax_element, lines 160-161
MinLen(lens) ==
    CHOOSE x \in {lens[i] : i \in 1..Len(lens)} :
        \A i \in 1..Len(lens) : LeU64(x, lens[i])
MaxLen(lens) ==
    CHOOSE x \in {lens[i] : i \in 1..Len(lens)} :
        \A i \in 1..Len(lens) : LeU64(lens[i], x)

\* The flag with its two values exchanged.
chunk7_flag_swapped(minlen, maxlen) == IF minlen = maxlen THEN 0 ELSE 1

\* The int8_t written by lines 163-167.
chunk7_flag(minlen, maxlen) == IF minlen = maxlen THEN 1 ELSE 0

\* Lines 169-172.
chunk7_lenbytes(maxlen, shl) ==
    IF GeU64(maxlen, shl) THEN 8
    ELSE IF GeU64(maxlen, U64(Limb)) THEN 4
    ELSE IF GeU64(maxlen, U64(256)) THEN 2
    ELSE 1

\* One `for (auto strlen : strlens) write_little_endian(dst, static_cast<..>(strlen))`.
RECURSIVE write_lens(_, _, _)
write_lens(d, lens, w) ==
    IF lens = <<>> THEN d
    ELSE write_lens(write_little_endian(d, CastU(lens[1], w), w), Tail(lens), w)

\* The switch of lines 175-184: no case ends in a break, so control enters at
\* the case of lenbytes and runs through every case below it.
chunk7_switch(d, lens, lenbytes) ==
    LET c1 == IF lenbytes = 1 THEN write_lens(d, lens, 1) ELSE d
        c2 == IF lenbytes \in {1, 2} THEN write_lens(c1, lens, 2) ELSE c1
        c4 == IF lenbytes \in {1, 2, 4} THEN write_lens(c2, lens, 4) ELSE c2
        c8 == IF lenbytes \in {1, 2, 4, 8} THEN write_lens(c4, lens, 8) ELSE c4
    IN  c8

\* Lines 186-187.
RECURSIVE write_contents(_, _, _, _)
write_contents(d, arr, p, end) ==
    IF p < end THEN write_contents(Write(d, arr[p + 1]), arr, p + 1, end) ELSE d

\* chunk7 without the early return: the flag and the width go out for an
\* empty batch too.
chunk7_empty_header(d, smp) == [dst |-> Put(Put(d, 1), 1), ret |-> smp]

\* write_chunk7_samples(dst, const std::string *sample, len), lines 152-189.
\* The early return of line 154.
chunk7_empty(d, smp) == [dst |-> d, ret |-> smp]

\* Lines 156-188, len > 0.
chunk7_batch(d, arr, smp, n, shl) ==
    LET strlens0 == StrLens(arr, n)
        minlen   == MinLen(strlens0)
        maxlen   == MaxLen(strlens0)
        d1       == write_little_endian(d, U64(chunk7_flag(minlen, maxlen)), 1)
        strlens  == IF minlen = maxlen THEN <<maxlen>> ELSE strlens0
        lenbytes == chunk7_lenbytes(maxlen, shl)
        d2       == write_little_endian(d1, U64(lenbytes), 1)
        d3       == chunk7_switch(d2, strlens, lenbytes)
    IN  [dst |-> write_contents(d3, arr, 0, n), ret |-> smp]

write_chunk7_samples_str(d, arr, smp, n, shl) ==
    IF n = 0 THEN chunk7_empty(d, smp) ELSE chunk7_batch(d, arr, smp, n, shl)

----------------------------------------------------------------------------
(* inputs *)

\* std::string values: "", "a", "ab", "cd", "ef", "bbb", and n copies of 'x'.
sEmpty == <<>>
sA == <<Seg(97, One64)>>
sAB == <<Seg(97, One64), Seg(98, One64)>>
sCD == <<Seg(99, One64), Seg(100, One64)>>
sEF == <<Seg(101, One64), Seg(102, One64)>>
sBBB == <<Seg(98, U64(3))>>
X(n) == <<Seg(120, n)>>

RECURSIVE SeqsUpTo(_, _)
SeqsUpTo(S, n) ==
    IF n = 0 THEN {<<>>}
    ELSE LET shorter == SeqsUpTo(S, n - 1)
         IN  shorter \cup {Append(q, x) : q \in {r \in shorter : Len(r) = n - 1}, x \in S}

\* Batches of strings: every batch of at most MaxBatch strings over "a" and
\* "bbb", and batches that sit on the limits the encoders branch on.
StringBatches ==
    SeqsUpTo({sA, sBBB}, MaxBatch)
    \cup { <<sAB, sCD, sEF>>, <<sEmpty>>, <<sEmpty, sA>>,
           <<X(U64(255))>>, <<X(U64(256))>>, <<sA, X(U64(256))>>,
           <<X(U64(Limb - 1))>>, <<X(U64(Limb))>>,
           <<X(U32Max)>>, <<X(<<0, 0, 1, 0>>)>> }

\* Batches of uint16_t.
NumBatches == {[i \in 1..n |-> U64(258 * i)] : n \in 0..MaxBatch}

\* Offsets of `sample` in the caller's array.
SampleOffsets == {0, 1}

VarlenValues ==
    { U64(0), U64(1), U64(255), U64(256), U64(Limb - 1), U64(Limb),
      U32Max, <<0, 0, 1, 0>>, <<1, 0, 1, 0>>, <<0, 0, 0, 1>>,
      <<Limb - 1, Limb - 1, Limb - 1, Limb - 1>> }

\* +0, -0, a subnormal, 1.0, -1.0, +inf, -inf, two NaNs.
Floats ==
    { Float(0, 0, 0), Float(1, 0, 0), Float(0, 0, 1), Float(0, 127, 0),
      Float(1, 127, 0), Float(0, 255, 0), Float(1, 255, 0),
      Float(0, 255, 1), Float(1, 255, 64 * 256 * 256) }

\* Values an uninitialised traits::bits may hold.
Indeterminate(t) == {get_bits(t), NoBits, Float(1, 255, ManMax)}

----------------------------------------------------------------------------
NoRet == 0 - 1

Init ==
    /\ dst = <<>>
    /\ pre = 0
    /\ op = "none"
    /\ strs = <<>>
    /\ nums = <<>>
    /\ sample = 0
    /\ len = 0
    /\ val = Zero64
    /\ flt = NoBits
    /\ ret = NoRet
    /\ exotic \in BOOLEAN
    /\ longBits \in {32, 64}

\* What every call does besides writing: it is made on a sink that still has
\* room, and the model records it.
Called(name) ==
    /\ Len(dst) <= MaxSink
    /\ op' = name
    /\ pre' = Len(dst)
    /\ UNCHANGED <<exotic, longBits>>

CallVarlenInt ==
    \E v \in VarlenValues :
        /\ Called("write_varlen_int")
        /\ dst' = write_varlen_int(dst, v)
        /\ val' = v
        /\ ret' = NoRet
        /\ strs' = <<>> /\ nums' = <<>> /\ sample' = 0 /\ len' = 0 /\ flt' = NoBits

CallLittleEndianFloat ==
    \E t \in Floats : \E u \in Indeterminate(t) :
        /\ Called("write_little_endian_float")
        /\ dst' = write_little_endian_fp(dst, t, u, exotic)
        /\ flt' = t
        /\ ret' = NoRet
        /\ strs' = <<>> /\ nums' = <<>> /\ sample' = 0 /\ len' = 0 /\ val' = Zero64

CallSampleValuesNum ==
    \E a \in NumBatches, s \in SampleOffsets :
        LET r == write_sample_values_num(dst, a, s, Len(a), exotic)
        IN  /\ Called("write_sample_values_num")
            /\ dst' = r.dst
            /\ ret' = r.ret
            /\ nums' = a /\ sample' = s /\ len' = Len(a)
            /\ strs' = <<>> /\ val' = Zero64 /\ flt' = NoBits

CallChunk7Num ==
    \E a \in NumBatches, s \in SampleOffsets :
        LET r == write_chunk7_samples_num(dst, a, s, Len(a), exotic)
        IN  /\ Called("write_chunk7_samples_num")
            /\ dst' = r.dst
            /\ ret' = r.ret
            /\ nums' = a /\ sample' = s /\ len' = Len(a)
            /\ strs' = <<>> /\ val' = Zero64 /\ flt' = NoBits

CallSampleValuesStr ==
    \E a \in StringBatches, s \in SampleOffsets :
        LET r == write_sample_values_str(dst, a, s, Len(a))
        IN  /\ Called("write_sample_values_str")
            /\ dst' = r.dst
            /\ ret' = r.ret
            /\ strs' = a /\ sample' = s /\ len' = Len(a)
            /\ nums' = <<>> /\ val' = Zero64 /\ flt' = NoBits

CallChunk7Str ==
    \E a \in StringBatches, s \in SampleOffsets : \E shl \in Shl1L32(longBits) :
        LET r == write_chunk7_samples_str(dst, a, s, Len(a), shl)
        IN  /\ Called("write_chunk7_samples_str")
            /\ dst' = r.dst
            /\ ret' = r.ret
            /\ strs' = a /\ sample' = s /\ len' = Len(a)
            /\ nums' = <<>> /\ val' = Zero64 /\ flt' = NoBits

CallChunk7Vec ==
    \E a \in StringBatches :
        /\ Called("write_chunk7_samples_vec")
        /\ dst' = write_chunk7_samples_vec(dst, a)
        /\ ret' = NoRet
        /\ strs' = a /\ sample' = 0 /\ len' = Len(a)
        /\ nums' = <<>> /\ val' = Zero64 /\ flt' = NoBits

Next ==
    \/ CallVarlenInt
    \/ CallLittleEndianFloat
    \/ CallSampleValuesNum
    \/ CallChunk7Num
    \/ CallSampleValuesStr
    \/ CallChunk7Str
    \/ CallChunk7Vec

Spec == Init /\ [][Next]_vars

----------------------------------------------------------------------------
(* what the properties speak of *)

\* The segments the last call appended.
Appended == SubSeq(dst, pre + 1, Len(dst))

\* The b-th byte the last call appended, when it was put as a byte of its own.
PutByte(i) == Appended[i].b
IsPutByte(i) == Len(Appended) >= i /\ Appended[i].n = One64

\* The bytes of a segment list in canonical form: no empty segment, no two neighbours with the same byte.
RECURSIVE NormFrom(_, _)
NormFrom(acc, s) ==
    IF s = <<>> THEN acc
    ELSE IF s[1].n = Zero64 THEN NormFrom(acc, Tail(s))
    ELSE IF acc # <<>> /\ acc[Len(acc)].b = s[1].b
         THEN NormFrom([acc EXCEPT ![Len(acc)].n = AddU64(@, s[1].n)], Tail(s))
         ELSE NormFrom(Append(acc, s[1]), Tail(s))
Norm(s) == NormFrom(<<>>, s)

AllSameLength(batch) ==
    \A i, j \in 1..Len(batch) : size(batch[i]) = size(batch[j])

LongestLength(batch) ==
    CHOOSE m \in {size(batch[i]) : i \in 1..Len(batch)} :
        \A i \in 1..Len(batch) : ~LtU64(m, size(batch[i]))

\* Sum over the batch of (c + length).
RECURSIVE SumLengthsPlus(_, _)
SumLengthsPlus(batch, c) ==
    IF batch = <<>> THEN Zero64
    ELSE AddU64(AddU64(U64(c), size(batch[1])), SumLengthsPlus(Tail(batch), c))

\* v < 2^(8w): every byte above the w-th is zero.
FitsIn(v, w) == \A i \in 1..8 : i > w => ByteOf(v, i) = 0

\* The uint64_t that w put bytes starting at Appended[from] hold, little-endian.
DecodeLE(from, w) ==
    LET byte(i) == IF i <= w THEN Appended[from + i - 1].b ELSE 0
    IN  [j \in 1..4 |-> byte(2 * j - 1) + 256 * byte(2 * j)]

\* Varlen(v) of the output grammar: [width:1][value: width bytes].
VarlenWidth(v) ==
    IF LtU64(v, U64(256)) THEN 1 ELSE IF LeU64(v, U32Max) THEN 4 ELSE 8
Varlen(v) ==
    <<Seg(VarlenWidth(v), One64)>>
    \o [i \in 1..VarlenWidth(v) |-> Seg(ByteOf(v, i), One64)]

\* StringBatchPlain of the output grammar.
RECURSIVE StringBatchPlain(_)
StringBatchPlain(batch) ==
    IF batch = <<>> THEN <<>>
    ELSE Varlen(size(batch[1])) \o batch[1] \o StringBatchPlain(Tail(batch))

\* The length-field width of chunk7 as specified.
Chunk7Width(m) ==
    IF LtU64(m, U64(256)) THEN 1
    ELSE IF LtU64(m, U64(Limb)) THEN 2
    ELSE IF LtU64(m, <<0, 0, 1, 0>>) THEN 4
    ELSE 8

\* The bit pattern held by the four bytes the last call appended.
WrittenBits ==
    LET b(i) == Appended[i].b
    IN  Float(b(4) \div 128,
              (b(3) \div 128) + 2 * (b(4) % 128),
              b(1) + 256 * b(2) + 256 * 256 * (b(3) % 128))

Chunk7StrCalled == op = "write_chunk7_samples_str"
PlainStrCalled == op = "write_sample_values_str"

----------------------------------------------------------------------------
(* properties *)

\* C1: a non-empty batch encoded by the string write_chunk7_samples appends
\* 2 + k * width + (sum of the string lengths) bytes, width being the emitted
\* width tag and k = 1 for a uniform batch, k = len otherwise: the length list
\* goes out exactly once.
C1_Chunk7ByteCount ==
    (Chunk7StrCalled /\ len > 0) =>
        /\ IsPutByte(2)
        /\ ByteLen(Appended) =
               AddU64(U64(2 + (IF AllSameLength(strs) THEN 1 ELSE len) * PutByte(2)),
                      SumLengthsPlus(strs, 0))

\* C2: the first byte the string write_chunk7_samples appends for a non-empty
\* batch is 1 if all strings have one length (minimum = maximum) and 0
\* otherwise; a batch of one string gets 1.
C2_Chunk7Flag ==
    (Chunk7StrCalled /\ len > 0) =>
        /\ IsPutByte(1)
        /\ PutByte(1) = (IF AllSameLength(strs) THEN 1 ELSE 0)
        /\ (PutByte(1) = 1) <=> (MinLen(StrLens(strs, len)) = LongestLength(strs))
        /\ len = 1 => PutByte(1) = 1

C2_Witness ==
    /\ Chunk7StrCalled /\ len = 2 /\ pre > 0
    /\ ~AllSameLength(strs)
    /\ PutByte(1) = 0

\* C3: the second byte the string write_chunk7_samples appends for a non-empty
\* batch is 1, 2, 4 or 8 as the longest length is below 2^8, 2^16, 2^32 or not.
C3_Chunk7WidthByte ==
    (Chunk7StrCalled /\ len > 0) =>
        /\ IsPutByte(2)
        /\ PutByte(2) = Chunk7Width(LongestLength(strs))

\* With a 64-bit long the width byte of C3 is as specified.
LP64_Chunk7WidthByte ==
    (Chunk7StrCalled /\ len > 0 /\ longBits = 64) =>
        /\ IsPutByte(2)
        /\ PutByte(2) = Chunk7Width(LongestLength(strs))

\* C4: whatever was written before, the string write_chunk7_samples called
\* with len = 0 leaves the sink as it was.
C4_Chunk7EmptyBatch ==
    [][(op' = "write_chunk7_samples_str" /\ len' = 0) => dst' = dst]_vars

C4_Witness ==
    /\ Chunk7StrCalled /\ len = 0
    /\ pre > 0 /\ Len(dst) = pre

\* C5: write_varlen_int appends a tag w and then w bytes that hold the value,
\* least significant first; w is 1 below 256, 4 up to 4294967295 and 8 above,
\* never 2, and the smallest of 1, 4, 8 that holds the value.
C5_VarlenInt ==
    op = "write_varlen_int" =>
        LET w == PutByte(1)
        IN  /\ IsPutByte(1)
            /\ w = (IF LtU64(val, U64(256)) THEN 1
                    ELSE IF LeU64(val, U32Max) THEN 4 ELSE 8)
            /\ w # 2
            /\ Len(Appended) = 1 + w
            /\ \A i \in 2..(1 + w) : IsPutByte(i)
            /\ DecodeLE(2, w) = val
            /\ FitsIn(val, w)
            /\ \A u \in {1, 4, 8} : FitsIn(val, u) => w <= u

C5_Witness ==
    /\ op = "write_varlen_int"
    /\ val = <<0, 0, 1, 0>>
    /\ PutByte(1) = 8

\* C6: the plain string encoder appends, string by string in order, the
\* varlen encoding of the length and then the bytes of the string, and
\* nothing else; an empty batch appends nothing.
C6_PlainStrings ==
    PlainStrCalled =>
        /\ Norm(Appended) = Norm(StringBatchPlain(strs))
        /\ len = 0 => Appended = <<>>

C6_Witness ==
    /\ PlainStrCalled
    /\ strs = <<sA, X(U64(256))>>
    /\ pre > 0

\* C7 as stated: with every length below 256 the plain string encoder appends
\* the sum of (1 + length) bytes.
C7_PlainByteCountStated ==
    (PlainStrCalled /\ \A i \in 1..len : LtU64(size(strs[i]), U64(256))) =>
        ByteLen(Appended) = SumLengthsPlus(strs, 1)

\* C7 amended: with every length below 256 the plain string encoder appends
\* the sum of (2 + length) bytes: the tag, the length byte and the string.
C7_PlainByteCount ==
    (PlainStrCalled /\ \A i \in 1..len : LtU64(size(strs[i]), U64(256))) =>
        ByteLen(Appended) = SumLengthsPlus(strs, 2)

C7_Witness ==
    /\ PlainStrCalled
    /\ strs = <<sA, sBBB>>
    /\ ByteLen(Appended) = U64(8)

\* C8: the classify-then-emit float encoder writes exponent all ones and a
\* nonzero mantissa for a NaN, exponent all ones, mantissa zero and the sign
\* of the value for an infinity, and the bits of the value itself for a zero,
\* a subnormal and a normal number.
C8_FloatBits ==
    (op = "write_little_endian_float" /\ exotic) =>
        /\ Len(Appended) = 4
        /\ \A i \in 1..4 : IsPutByte(i)
        /\ fpclassify(flt) = "FP_NAN" =>
               WrittenBits.exp = 255 /\ WrittenBits.man # 0
        /\ fpclassify(flt) = "FP_INFINITE" =>
               WrittenBits = Float(flt.sign, 255, 0)
        /\ fpclassify(flt) \in {"FP_ZERO", "FP_SUBNORMAL", "FP_NORMAL"} =>
               WrittenBits = flt

\* Apart from subnormal values the float encoder of C8 writes what is specified.
NotSubnormal_FloatBits ==
    (op = "write_little_endian_float" /\ exotic /\ fpclassify(flt) # "FP_SUBNORMAL") =>
        /\ fpclassify(flt) = "FP_NAN" =>
               WrittenBits.exp = 255 /\ WrittenBits.man # 0
        /\ fpclassify(flt) = "FP_INFINITE" =>
               WrittenBits = Float(flt.sign, 255, 0)
        /\ fpclassify(flt) \in {"FP_ZERO", "FP_NORMAL"} =>
               WrittenBits = flt

\* C9: on a vector of strings the vector overload of write_chunk7_samples
\* appends what the pointer-and-length overload appends for data() and size().
C9_Chunk7OverloadsAgree ==
    op = "write_chunk7_samples_vec" =>
        \E shl \in Shl1L32(longBits) :
            Norm(Appended) =
                Norm(write_chunk7_samples_str(<<>>, strs, 0, Len(strs), shl).dst)

\* C10: every pointer-and-length batch encoder returns sample + len.
C10_ReturnsOnePastLast ==
    op \in {"write_sample_values_num", "write_sample_values_str",
            "write_chunk7_samples_num", "write_chunk7_samples_str"} =>
        ret = sample + len

====
